---- MODULE Spec2Model ----
(***************************************************************************)
(* Two greeting services of the DevOps repository.                         *)
(*   Service A  Docker/1/app.py   Flask application, one route "/"         *)
(*   Service B  Docker/2/main.py  FastAPI application, GET "/" and POST "/"*)
(* The state is what the two processes hold: the module name under which   *)
(* app.py is executed, each application's route table, each listener, and  *)
(* the bag of connections being handled.  A request is handled in steps    *)
(* (accepted and matched, answered, closed), so that the requests in       *)
(* flight interleave.                                                      *)
(* A path is the tuple of its segments: "/" is << >>, "/docs" is <<"docs">>.*)
(* A body is a sequence of tokens, so that JSON rendering is computed.     *)
(***************************************************************************)
EXTENDS Integers, Sequences, FiniteSets, Bags, TLC

VARIABLES name, static_files, pc, url_map, listen, conns

vars == <<name, static_files, pc, url_map, listen, conns>>

\* Number of connections that can be in flight at once.
MaxConn == 2

Services == {"A", "B"}

-----------------------------------------------------------------------------
(* Bodies *)

Raw(s) == [t |-> "raw", v |-> s]
Punct(s) == [t |-> "punct", v |-> s]
Str(s) == [t |-> "str", v |-> s]

RECURSIVE JsonItems(_)
\* The members of a JSON object, the dict's items in order, "," between them.
JsonItems(d) ==
    IF Len(d) = 0 THEN << >>
    ELSE <<Str(d[1][1]), Punct(":"), Str(d[1][2])>>
         \o (IF Len(d) = 1 THEN << >> ELSE <<Punct(",")>> \o JsonItems(Tail(d)))

\* JSONResponse.render: json.dumps of a dict of strings.
JsonDumps(d) == <<Punct("{")>> \o JsonItems(d) \o <<Punct("}")>>

Response(status, media_type, body) ==
    [status |-> status, media_type |-> media_type, body |-> body]

-----------------------------------------------------------------------------
(* Docker/1/app.py *)

\* Variant of root: the greeting without its markup.
root_plain == "Hello World from Docker Flask"

\* Variant of root: a greeting that depends on what was answered before.
root_seen == IF \E r \in BagToSet(conns) : r.stage = "done"
             THEN "Hello again from Docker <b>Flask</b>"
             ELSE "Hello World from Docker <b>Flask</b>"

\* def root(): the value the view returns.
root == "Hello World from Docker <b>Flask</b>"

\* Variant of root_methods: the rule registered with methods=["GET", "POST"].
root_methods_post == {"GET", "POST"}

\* @app.route("/") names no methods: the rule is registered for GET.
root_methods == {"GET"}

\* Variant of root_rule: the rule string "/<path:p>".
root_rule_any == [path |-> << >>, subpath |-> TRUE]

\* @app.route("/"): the rule string "/", matching the root path alone.
root_rule == [path |-> << >>, subpath |-> FALSE]

\* Variant of run_host: app.run without host, Flask's default.
run_host_default == "127.0.0.1"

\* app.run(host="0.0.0.0", ...)
run_host == "0.0.0.0"

\* app.run(..., port=5000)
run_port == 5000

\* Flask.add_url_rule: OPTIONS is added for the automatic options response,
\* and a rule that takes GET takes HEAD.
FlaskMethods(methods) ==
    methods \cup {"OPTIONS"} \cup (IF "GET" \in methods THEN {"HEAD"} ELSE {})

Route(rule, methods, endpoint) ==
    [path |-> rule.path, subpath |-> rule.subpath, methods |-> methods,
     endpoint |-> endpoint]

\* Flask(__name__): static_folder defaults to "static", and the rule
\* /static/<path:filename> is registered for it.
FlaskApp ==
    <<Route([path |-> <<"static">>, subpath |-> TRUE], FlaskMethods({"GET"}),
            "static")>>

-----------------------------------------------------------------------------
(* Docker/2/main.py *)

\* Variant of read_root: the payloads of the two endpoints exchanged.
read_root_post == << <<"Hello", "World from Docker FastAPI POST">> >>

\* def read_root(): the dict the endpoint returns.
read_root == << <<"Hello", "World from Docker FastAPI GET">> >>

\* Variant of read_post_root: the payloads of the two endpoints exchanged.
read_post_root_get == << <<"Hello", "World from Docker FastAPI GET">> >>

\* def read_post_root(): the dict the endpoint returns.
read_post_root == << <<"Hello", "World from Docker FastAPI POST">> >>

\* def read_root(): declares no parameter.
read_root_params == {}

\* Variant of read_post_root_params: the endpoint declares a body parameter.
read_post_root_params_body == {"body"}

\* def read_post_root(): declares no parameter.
read_post_root_params == {}

\* A Starlette Route of a function that takes GET takes HEAD.
StarletteMethods(methods) ==
    methods \cup (IF "GET" \in methods THEN {"HEAD"} ELSE {})

Exact(path) == [path |-> path, subpath |-> FALSE]

\* FastAPI(): with the default openapi_url, docs_url and redoc_url the
\* constructor registers the schema and the documentation pages.
FastAPIApp ==
    << Route(Exact(<<"openapi.json">>), StarletteMethods({"GET"}), "openapi"),
       Route(Exact(<<"docs">>), StarletteMethods({"GET"}), "swagger_ui_html"),
       Route(Exact(<<"docs", "oauth2-redirect">>), StarletteMethods({"GET"}),
             "swagger_ui_redirect"),
       Route(Exact(<<"redoc">>), StarletteMethods({"GET"}), "redoc_html") >>

\* Where the server that runs main:app may be told to listen.
BindChoices == { [host |-> "127.0.0.1", port |-> 8000],
                 [host |-> "0.0.0.0", port |-> 8000] }

-----------------------------------------------------------------------------
(* Requests *)

Methods == {"GET", "HEAD", "OPTIONS", "POST", "PUT", "DELETE", "PATCH"}

Request(method, path, query, body, headers) ==
    [method |-> method, path |-> path, query |-> query, body |-> body,
     headers |-> headers]

Plain(method, path) == Request(method, path, "", "", "")

\* What a client sends: every method on "/", other paths, and requests for
\* "/" that carry a query string, a body (JSON or malformed) or a header.
Requests ==
    { Plain(m, << >>) : m \in Methods }
    \cup { Plain("GET", p) :
             p \in { <<"nonexistent">>, <<"docs">>, <<"static", "app.css">> } }
    \cup { Request(m, << >>, "q=1", "", "") : m \in {"GET", "POST"} }
    \cup { Request(m, << >>, "", "{malformed", "") : m \in {"GET", "POST"} }
    \cup { Request("POST", << >>, "", "{\"a\": 1}", ""),
           Request("GET", << >>, "", "", "X-Test: 1") }

-----------------------------------------------------------------------------
(* Routing *)

\* A rule matches its own path; a rule with a path converter below it
\* (/static/<path:filename>) matches every path under it.
PathMatches(route, path) ==
    IF route.subpath
    THEN /\ Len(path) > Len(route.path)
         /\ SubSeq(path, 1, Len(route.path)) = route.path
    ELSE path = route.path

First(S) == CHOOSE i \in S : \A j \in S : i <= j

NoMatch == [endpoint |-> "", code |-> 0]

\* The route table's answer: the first route that takes the path and the
\* method; 405 when routes take the path but none the method; 404 otherwise.
MatchRoutes(routes, req) ==
    LET byPath == { i \in DOMAIN routes : PathMatches(routes[i], req.path) }
        full == { i \in byPath : req.method \in routes[i].methods }
    IN  IF full # {} THEN [endpoint |-> routes[First(full)].endpoint, code |-> 0]
        ELSE IF byPath # {} THEN [endpoint |-> "", code |-> 405]
        ELSE [endpoint |-> "", code |-> 404]

\* Flask: url_adapter.match() on the application's url_map.
FlaskMatch(req) == MatchRoutes(url_map["A"], req)

\* FastAPI: the router's walk over app.routes.
FastAPIMatch(req) == MatchRoutes(url_map["B"], req)

-----------------------------------------------------------------------------
(* Responses *)

NoResponse == Response(0, "", << >>)

\* A response to HEAD carries no body.
ForMethod(req, resp) ==
    IF req.method = "HEAD" THEN [resp EXCEPT !.body = << >>] ELSE resp

\* Flask's answer for a routing error: the HTTPException's own page.
FlaskError(code) ==
    Response(code, "text/html",
             <<Raw(IF code = 404 THEN "404 Not Found"
                   ELSE "405 Method Not Allowed")>>)

\* Flask's answer where no view of app.py is called: routing errors, the
\* automatic OPTIONS response, and the static folder's files (404 for a
\* file that is not there).
FlaskDefault(req, match) ==
    IF match.code # 0 THEN FlaskError(match.code)
    ELSE IF req.method = "OPTIONS" THEN Response(200, "text/html", << >>)
    ELSE IF req.path[Len(req.path)] \in static_files
         THEN ForMethod(req, Response(200, "text/css", <<Raw("app.css")>>))
         ELSE FlaskError(404)

\* make_response on a view's str: 200, text/html, the string as the body.
FlaskView(req, rv) == ForMethod(req, Response(200, "text/html", <<Raw(rv)>>))

\* FastAPI's answer for an HTTPException: {"detail": ...}.
FastAPIError(code) ==
    Response(code, "application/json",
             JsonDumps(<< <<"detail", IF code = 404 THEN "Not Found"
                                      ELSE IF code = 405 THEN "Method Not Allowed"
                                      ELSE "Unprocessable Entity">> >>))

\* FastAPI's answer where no endpoint of main.py is called: routing errors,
\* the schema and the documentation pages.
FastAPIDefault(req, match) ==
    IF match.code # 0 THEN FastAPIError(match.code)
    ELSE IF match.endpoint = "openapi"
         THEN ForMethod(req, Response(200, "application/json",
                                      <<Raw("openapi schema")>>))
         ELSE ForMethod(req, Response(200, "text/html", <<Raw(match.endpoint)>>))

\* The declared parameters that the request does not satisfy: a body
\* parameter needs a body that parses as JSON.
ParamErrors(params, req) ==
    { p \in params : p = "body" /\ req.body \in {"", "{malformed"} }

\* FastAPI's request handler for an endpoint: validate the declared
\* parameters (422 on failure), call it, render the returned dict as JSON.
FastAPIEndpoint(req, params, rv) ==
    IF ParamErrors(params, req) # {} THEN FastAPIError(422)
    ELSE Response(200, "application/json", JsonDumps(rv))

-----------------------------------------------------------------------------
(* State *)

NoSocket == [host |-> "", port |-> 0]

\* The connections in flight.
InFlight == BagToSet(conns)

\* The connections in flight beside r.
Others(r) == BagToSet(conns (-) SetToBag({r}))

\* Before either module has been executed.  app.py is run as a script
\* (__main__) or imported under its own name; the files of its static
\* folder, if any, are those of the deployment.
Init ==
    /\ name \in {"__main__", "app"}
    /\ static_files \in SUBSET {"app.css"}
    /\ pc = [s \in Services |-> "start"]
    /\ url_map = [s \in Services |-> << >>]
    /\ listen = [s \in Services |-> NoSocket]
    /\ conns = EmptyBag

-----------------------------------------------------------------------------
(* Start-up *)

\* app.py, lines 1-7: the application object, then the route for root.
import_app ==
    /\ pc["A"] = "start"
    /\ url_map' = [url_map EXCEPT !["A"] =
                     FlaskApp \o <<Route(root_rule, FlaskMethods(root_methods),
                                         "root")>>]
    /\ pc' = [pc EXCEPT !["A"] = "imported"]
    /\ UNCHANGED <<name, static_files, listen, conns>>

\* app.py, lines 10-11: run as a script, the application starts its server.
app_run ==
    /\ pc["A"] = "imported"
    /\ name = "__main__"
    /\ listen' = [listen EXCEPT !["A"] = [host |-> run_host, port |-> run_port]]
    /\ pc' = [pc EXCEPT !["A"] = "serving"]
    /\ UNCHANGED <<name, static_files, url_map, conns>>

\* main.py, lines 1-12: the application object, then the two routes for root.
import_main ==
    /\ pc["B"] = "start"
    /\ url_map' = [url_map EXCEPT !["B"] =
                     FastAPIApp
                     \o <<Route(Exact(<< >>), {"GET"}, "read_root"),
                          Route(Exact(<< >>), {"POST"}, "read_post_root")>>]
    /\ pc' = [pc EXCEPT !["B"] = "imported"]
    /\ UNCHANGED <<name, static_files, listen, conns>>

\* main.py starts no server: the server that imported it listens where it
\* was told to.
serve_main(bind) ==
    /\ pc["B"] = "imported"
    /\ listen' = [listen EXCEPT !["B"] = bind]
    /\ pc' = [pc EXCEPT !["B"] = "serving"]
    /\ UNCHANGED <<name, static_files, url_map, conns>>

-----------------------------------------------------------------------------
(* Request handling *)

\* A serving application takes a request on its listening socket and
\* matches it against its routes.
Accept(s, req) ==
    /\ BagCardinality(conns) < MaxConn
    /\ pc[s] = "serving"
    /\ conns' = conns (+) SetToBag({
                   [stage |-> "matched", svc |-> s, req |-> req,
                    sock |-> listen[s],
                    match |-> IF s = "A" THEN FlaskMatch(req)
                              ELSE FastAPIMatch(req),
                    resp |-> NoResponse] })
    /\ UNCHANGED <<name, static_files, pc, url_map, listen>>

\* Connection r, and no other, gets its response.
Answer(r, resp) ==
    /\ conns' = (conns (-) SetToBag({r}))
                (+) SetToBag({[r EXCEPT !.stage = "done", !.resp = resp]})
    /\ UNCHANGED <<name, static_files, pc, url_map, listen>>

Matched(r, s) == r.stage = "matched" /\ r.svc = s

\* The endpoint the application calls for r; Flask answers OPTIONS itself.
Calls(r, endpoint) ==
    /\ r.match.endpoint = endpoint
    /\ ~(r.svc = "A" /\ r.req.method = "OPTIONS")

\* Variant of root_view: the body is built in a buffer that the views of
\* concurrent requests share, and is lost when another is being handled.
root_view_racing(r) ==
    /\ Matched(r, "A")
    /\ Calls(r, "root")
    /\ Answer(r, IF \E q \in Others(r) : Matched(q, "A")
                 THEN FlaskView(r.req, "")
                 ELSE FlaskView(r.req, root))

\* Variant of root_view: the view registers a rule while it handles a request.
root_view_registering(r) ==
    /\ Matched(r, "A")
    /\ Calls(r, "root")
    /\ conns' = (conns (-) SetToBag({r}))
                (+) SetToBag({[r EXCEPT !.stage = "done",
                                        !.resp = FlaskView(r.req, root)]})
    /\ url_map' = [url_map EXCEPT !["A"] =
                     Append(@, Route(Exact(<<"nonexistent">>),
                                     FlaskMethods({"GET"}), "root"))]
    /\ UNCHANGED <<name, static_files, pc, listen>>

\* app.py, lines 5-7: root() is called and its string is the response.
root_view(r) ==
    /\ Matched(r, "A")
    /\ Calls(r, "root")
    /\ Answer(r, FlaskView(r.req, root))

\* Service A answers without calling root().
flask_default(r) ==
    /\ Matched(r, "A")
    /\ ~Calls(r, "root")
    /\ Answer(r, FlaskDefault(r.req, r.match))

\* main.py, lines 6-8: read_root() is called and its dict is the response.
read_root_endpoint(r) ==
    /\ Matched(r, "B")
    /\ Calls(r, "read_root")
    /\ Answer(r, FastAPIEndpoint(r.req, read_root_params, read_root))

\* main.py, lines 10-12: read_post_root() is called and its dict is the
\* response.
read_post_root_endpoint(r) ==
    /\ Matched(r, "B")
    /\ Calls(r, "read_post_root")
    /\ Answer(r, FastAPIEndpoint(r.req, read_post_root_params, read_post_root))

\* Service B answers without calling an endpoint of main.py.
fastapi_default(r) ==
    /\ Matched(r, "B")
    /\ ~Calls(r, "read_root")
    /\ ~Calls(r, "read_post_root")
    /\ Answer(r, FastAPIDefault(r.req, r.match))

\* The response has been sent and the connection is closed.
Close(r) ==
    /\ r.stage = "done"
    /\ conns' = conns (-) SetToBag({r})
    /\ UNCHANGED <<name, static_files, pc, url_map, listen>>

Next ==
    \/ import_app
    \/ app_run
    \/ import_main
    \/ \E bind \in BindChoices : serve_main(bind)
    \/ \E s \in Services, req \in Requests : Accept(s, req)
    \/ \E r \in InFlight : root_view(r)
    \/ \E r \in InFlight : flask_default(r)
    \/ \E r \in InFlight : read_root_endpoint(r)
    \/ \E r \in InFlight : read_post_root_endpoint(r)
    \/ \E r \in InFlight : fastapi_default(r)
    \/ \E r \in InFlight : Close(r)

Spec == Init /\ [][Next]_vars

-----------------------------------------------------------------------------
(* The claims *)

\* The answered connections of service s.
Done(s) == { r \in InFlight : r.stage = "done" /\ r.svc = s }

ForRoot(r, method) == r.req.path = << >> /\ r.req.method = method

\* The three payloads, written out.
FlaskGreeting ==
    << [t |-> "raw", v |-> "Hello World from Docker <b>Flask</b>"] >>

GetGreeting ==
    << [t |-> "punct", v |-> "{"], [t |-> "str", v |-> "Hello"],
       [t |-> "punct", v |-> ":"],
       [t |-> "str", v |-> "World from Docker FastAPI GET"],
       [t |-> "punct", v |-> "}"] >>

PostGreeting ==
    << [t |-> "punct", v |-> "{"], [t |-> "str", v |-> "Hello"],
       [t |-> "punct", v |-> ":"],
       [t |-> "str", v |-> "World from Docker FastAPI POST"],
       [t |-> "punct", v |-> "}"] >>

Greetings == {FlaskGreeting, GetGreeting, PostGreeting}

\* C1: every answer of Service A to GET / has status 200 and the body
\* Hello World from Docker <b>Flask</b>, whatever was requested before and
\* whatever else is in flight.
C1_FlaskGetRoot ==
    \A r \in Done("A") :
        ForRoot(r, "GET") => r.resp.status = 200 /\ r.resp.body = FlaskGreeting

\* Service A has answered GET / while an answer to another request of its
\* own is still open.
C1_Witness ==
    \E r \in Done("A") :
        /\ ForRoot(r, "GET")
        /\ r.resp.status = 200
        /\ \E q \in Done("A") : q.req # r.req

\* C2: every answer of Service B to GET / has status 200 and the JSON body
\* {"Hello": "World from Docker FastAPI GET"}, never the POST payload.
C2_FastAPIGetRoot ==
    \A r \in Done("B") :
        ForRoot(r, "GET") =>
            /\ r.resp.status = 200
            /\ r.resp.media_type = "application/json"
            /\ r.resp.body = GetGreeting
            /\ r.resp.body # PostGreeting

\* Service B has answered GET / beside an answered POST /.
C2_Witness ==
    \E r \in Done("B") :
        /\ ForRoot(r, "GET")
        /\ r.resp.body = GetGreeting
        /\ \E q \in Done("B") : ForRoot(q, "POST")

\* C3: every answer of Service B to POST / has status 200 and the JSON body
\* {"Hello": "World from Docker FastAPI POST"}, never the GET payload.
C3_FastAPIPostRoot ==
    \A r \in Done("B") :
        ForRoot(r, "POST") =>
            /\ r.resp.status = 200
            /\ r.resp.media_type = "application/json"
            /\ r.resp.body = PostGreeting
            /\ r.resp.body # GetGreeting

\* Service B has answered POST / beside an answered request it refused.
C3_Witness ==
    \E r \in Done("B") :
        /\ ForRoot(r, "POST")
        /\ r.resp.body = PostGreeting
        /\ \E q \in Done("B") : q.resp.status >= 400

\* C4: two answers of one service to the same request are the same answer:
\* the same status, media type and body, whatever was handled between them.
C4_SameRequestSameResponse ==
    \A s \in Services : \A r \in Done(s), q \in Done(s) :
        r.req = q.req => r.resp = q.resp

\* One request has been answered twice, and both answers are open.
C4_Witness ==
    \E s \in Services : \E r \in Done(s) : CopiesIn(r, conns) >= 2

\* The paths that the frameworks serve on their own account: Flask's static
\* folder, FastAPI's schema and documentation pages.
FrameworkPath(s, path) ==
    IF s = "A" THEN Len(path) >= 2 /\ path[1] = "static"
    ELSE path \in { <<"openapi.json">>, <<"docs">>,
                    <<"docs", "oauth2-redirect">>, <<"redoc">> }

Identical(r, q) == r.svc = q.svc /\ r.req = q.req

\* C6: an answered request that has an identical request in flight beside it
\* has the answer of that request handled alone: the greeting where a route
\* of the application takes it, and the same answer as every identical
\* request answered beside it.
C6_ConcurrentIdentical ==
    \A r \in InFlight :
        (r.stage = "done" /\ \E q \in Others(r) : Identical(r, q)) =>
            /\ (r.svc = "A" /\ ForRoot(r, "GET")) =>
                   r.resp.status = 200 /\ r.resp.body = FlaskGreeting
            /\ (r.svc = "B" /\ ForRoot(r, "GET")) =>
                   r.resp.status = 200 /\ r.resp.body = GetGreeting
            /\ (r.svc = "B" /\ ForRoot(r, "POST")) =>
                   r.resp.status = 200 /\ r.resp.body = PostGreeting
            /\ \A q \in Others(r) :
                  (Identical(r, q) /\ q.stage = "done") => q.resp = r.resp

\* A GET / has its greeting while an identical GET / is still being handled.
C6_Witness ==
    \E r \in InFlight :
        /\ r.stage = "done"
        /\ ForRoot(r, "GET")
        /\ r.resp.status = 200
        /\ \E q \in Others(r) : Identical(r, q) /\ q.stage = "matched"

\* C7: a serving Service A listens on 0.0.0.0, port 5000, and every request
\* of Service A was taken on that socket; it has no request unless serving.
C7_ListenAddress ==
    /\ pc["A"] = "serving" => listen["A"] = [host |-> "0.0.0.0", port |-> 5000]
    /\ \A r \in InFlight :
          r.svc = "A" =>
              /\ pc["A"] = "serving"
              /\ r.sock = [host |-> "0.0.0.0", port |-> 5000]

\* Service A is serving and has taken a request.
C7_Witness ==
    /\ pc["A"] = "serving"
    /\ \E r \in InFlight : r.svc = "A" /\ r.sock.port = 5000

\* C8: Service A answers POST, PUT, DELETE and PATCH on / with 405 and never
\* with the greeting; Service B answers no method but GET and POST on / with
\* a greeting payload.
C8_OtherMethods ==
    /\ \A r \in Done("A") :
          (r.req.path = << >>
           /\ r.req.method \in {"POST", "PUT", "DELETE", "PATCH"}) =>
              /\ r.resp.status = 405
              /\ r.resp.body \notin Greetings
    /\ \A r \in Done("B") :
          (r.req.path = << >> /\ r.req.method \notin {"GET", "POST"}) =>
              r.resp.body \notin Greetings

\* Service A has refused POST / and Service B has refused PUT /.
C8_Witness ==
    /\ \E r \in Done("A") : ForRoot(r, "POST") /\ r.resp.status = 405
    /\ \E r \in Done("B") : ForRoot(r, "PUT") /\ r.resp.status = 405

\* C9: Service B's answers to GET / are all one answer, and so are its
\* answers to POST /: status 200 and the method's payload, whatever query
\* string, body or header the request carries.
C9_MethodAlone ==
    \A r \in Done("B") :
        (r.req.path = << >> /\ r.req.method \in {"GET", "POST"}) =>
            /\ r.resp.status = 200
            /\ r.resp.body = (IF r.req.method = "GET" THEN GetGreeting
                              ELSE PostGreeting)
            /\ \A q \in Done("B") :
                  (q.req.path = << >> /\ q.req.method = r.req.method) =>
                      q.resp = r.resp

\* Service B has answered a POST / without a body and one with a malformed
\* body.
C9_Witness ==
    \E r \in Done("B"), q \in Done("B") :
        /\ ForRoot(r, "POST")
        /\ ForRoot(q, "POST")
        /\ r.req.body = ""
        /\ q.req.body = "{malformed"
        /\ r.resp = q.resp

\* What a service holds beside its connections.
ServiceState == <<name, static_files, pc, url_map, listen>>

\* One request was taken, and no connection in flight was touched.
Taken ==
    \E r \in BagToSet(conns') :
        r.stage = "matched" /\ conns' = conns (+) SetToBag({r})

\* One matched connection got its response, and no other was touched.
Answered ==
    \E r \in InFlight : \E q \in BagToSet(conns') :
        /\ r.stage = "matched"
        /\ q = [r EXCEPT !.stage = "done", !.resp = q.resp]
        /\ conns' = (conns (-) SetToBag({r})) (+) SetToBag({q})

\* One answered connection was closed, and no other was touched.
Closed ==
    \E r \in InFlight : r.stage = "done" /\ conns' = conns (-) SetToBag({r})

\* C10: a step that handles a request leaves the route tables, the listeners
\* and the processes as they were, and changes one connection only: the
\* connections of the other service, and the other connections of the same
\* service, keep their requests and responses.
C10_Frame ==
    [][conns' # conns =>
           /\ ServiceState' = ServiceState
           /\ Taken \/ Answered \/ Closed]_vars

\* Both services have answered a request, and both route tables are as the
\* modules built them.
C10_Witness ==
    /\ Done("A") # {}
    /\ Done("B") # {}
    /\ Len(url_map["A"]) = 2
    /\ Len(url_map["B"]) = 6

====
